---- MODULE Spec2Model ----
(***************************************************************************)
(* Model of the request handlers of src/server.js (Express + Mongoose).    *)
(* The three collections (Users, Products, Orders) are the shared state;   *)
(* every request is served by a client process that is split into one      *)
(* atomic step per database call (the awaits of the async handlers), so    *)
(* that two requests interleave exactly where the code lets them.          *)
(***************************************************************************)
EXTENDS Integers, Sequences, FiniteSets, TLC

VARIABLES users, products, orders, pc, req, loc, resp

vars == <<users, products, orders, pc, req, loc, resp>>

\* ------------------------------------------------------------------ bounds
MaxOrders == 2

\* ------------------------------------------------------------ input domains
Procs == {"p1", "p2"}
Emails == {"a@x", "b@x"}
Passwords == {"pw1", "pw2"}
RoleEnum == {"user", "admin"}
RoleInputs == RoleEnum \cup {"guest"}
StatusEnum == {"Pending", "Shipped", "Delivered"}

NoBody == [route |-> "none"]
NoResp == [route |-> "none", status |-> 0]

\* --------------------------------------------------------------- helpers
\* bcrypt.hash(password, 10): a salted digest, never the clear text
BcryptHash(password) == <<"$2a$10$", password>>

\* bcrypt.compare(password, hash)
BcryptCompare(password, hash) == hash = BcryptHash(password)

\* User.findOne({ email }): the position of the first user holding the email,
\* 0 when there is none (null)
FindUser(us, email) ==
  IF \E i \in 1..Len(us) : us[i].email = email
  THEN CHOOSE i \in 1..Len(us) :
         /\ us[i].email = email
         /\ \A j \in 1..(i - 1) : us[j].email # email
  ELSE 0

\* new User({ name, email, password: hashed, role }): schema defaults applied
NewUser(us, b) ==
  [_id |-> Len(us) + 1, name |-> b.name, email |-> b.email,
   password |-> BcryptHash(b.password), role |-> b.role,
   isFirstLogin |-> TRUE, wishlist |-> <<>>]

\* the schema's enum validator on role, run by save()
UserValid(doc) == doc.role \in RoleEnum

\* the unique index on email (UserSchema: unique: true), enforced by the
\* database when the insert runs
UniqueIndexOkNoIndex(us, doc) == TRUE

UniqueIndexOk(us, doc) == \A i \in 1..Len(us) : us[i].email # doc.email

\* res.status(..).json(..): the response ends the request.  The field "of"
\* records which request the response answers; it is not part of the JSON.
Respond(p, r) ==
  /\ resp' = [resp EXCEPT ![p] = r]
  /\ pc' = [pc EXCEPT ![p] = "idle"]
  /\ req' = [req EXCEPT ![p] = NoBody]
  /\ loc' = [loc EXCEPT ![p] = NoBody]

\* the step is taken by process p (no other process moves)
Acts(p) ==
  \A q \in Procs \ {p} : pc'[q] = pc[q] /\ resp'[q] = resp[q] /\ req'[q] = req[q]

\* ------------------------------------------------------------------ signup
SignupBodies ==
  [route : {"signup"}, name : {"n"}, email : Emails, password : {"pw1"},
   confirm : Passwords, role : RoleInputs]

SignupOf(b) == [email |-> b.email, match |-> (b.password = b.confirm)]

\* the checks of POST /signup up to the await of User.findOne
SignupOutcomeEmailFirst(us, b) ==
  IF FindUser(us, b.email) # 0 THEN 409
  ELSE IF b.password # b.confirm THEN 400
  ELSE 0

SignupOutcome(us, b) ==
  IF b.password # b.confirm THEN 400
  ELSE IF FindUser(us, b.email) # 0 THEN 409
  ELSE 0

Signup(p, b) ==
  /\ pc[p] = "idle"
  /\ LET o == SignupOutcome(users, b) IN
       IF o = 400
       THEN /\ Respond(p, [route |-> "signup", of |-> SignupOf(b), status |-> 400,
                           success |-> FALSE, message |-> "Passwords do not match"])
            /\ UNCHANGED <<users, products, orders>>
       ELSE IF o = 409
       THEN /\ Respond(p, [route |-> "signup", of |-> SignupOf(b), status |-> 409,
                           success |-> FALSE, message |-> "Email already exists"])
            /\ UNCHANGED <<users, products, orders>>
       ELSE /\ pc' = [pc EXCEPT ![p] = "signup_save"]
            /\ req' = [req EXCEPT ![p] = b]
            /\ resp' = [resp EXCEPT ![p] = NoResp]
            /\ UNCHANGED <<users, products, orders, loc>>

\* await new User({...}).save(), then the response; a validation error or a
\* duplicate-key error is caught and answered 500
SignupSave(p) ==
  /\ pc[p] = "signup_save"
  /\ LET doc == NewUser(users, req[p]) IN
       IF UserValid(doc) /\ UniqueIndexOk(users, doc)
       THEN /\ users' = Append(users, doc)
            /\ Respond(p, [route |-> "signup", of |-> SignupOf(req[p]),
                           status |-> 200, success |-> TRUE, role |-> doc.role])
            /\ UNCHANGED <<products, orders>>
       ELSE /\ Respond(p, [route |-> "signup", of |-> SignupOf(req[p]),
                           status |-> 500, success |-> FALSE,
                           message |-> "Server error"])
            /\ UNCHANGED <<users, products, orders>>

\* ------------------------------------------------------------------- login
LoginBodies ==
  [route : {"login"}, email : Emails, password : Passwords, role : RoleInputs]

\* the checks of POST /login, in the order the handler runs them
LoginOutcomeRoleFirst(us, b) ==
  LET i == FindUser(us, b.email) IN
    IF i = 0 THEN 404
    ELSE IF us[i].role # b.role THEN 403
    ELSE IF ~BcryptCompare(b.password, us[i].password) THEN 401
    ELSE 200

LoginOutcome(us, b) ==
  LET i == FindUser(us, b.email) IN
    IF i = 0 THEN 404
    ELSE IF ~BcryptCompare(b.password, us[i].password) THEN 401
    ELSE IF us[i].role # b.role THEN 403
    ELSE 200

LoginMessage(us, b, o) ==
  IF o = 404 THEN <<"User not found">>
  ELSE IF o = 401 THEN <<"Invalid password">>
  ELSE <<"Incorrect role. Registered as ", us[FindUser(us, b.email)].role>>

Login(p, b) ==
  /\ pc[p] = "idle"
  /\ LET o == LoginOutcome(users, b)
         i == FindUser(users, b.email) IN
       IF o # 200
       THEN /\ Respond(p, [route |-> "login", of |-> b, status |-> o,
                           success |-> FALSE,
                           message |-> LoginMessage(users, b, o)])
            /\ UNCHANGED <<users, products, orders>>
       ELSE IF users[i].isFirstLogin
       THEN /\ pc' = [pc EXCEPT ![p] = "login_save"]
            /\ req' = [req EXCEPT ![p] = b]
            /\ loc' = [loc EXCEPT ![p] = [route |-> "login", user |-> users[i]]]
            /\ resp' = [resp EXCEPT ![p] = NoResp]
            /\ UNCHANGED <<users, products, orders>>
       ELSE /\ Respond(p, [route |-> "login", of |-> b, status |-> 200,
                           success |-> TRUE, role |-> users[i].role,
                           isNewUser |-> FALSE])
            /\ UNCHANGED <<users, products, orders>>

\* user.isFirstLogin = false; await user.save(): the update sets the one
\* modified path on the document with the user's _id
LoginSave(p) ==
  /\ pc[p] = "login_save"
  /\ LET u == loc[p].user IN
       /\ users' = [users EXCEPT ![u._id].isFirstLogin = FALSE]
       /\ Respond(p, [route |-> "login", of |-> req[p], status |-> 200,
                      success |-> TRUE, role |-> u.role, isNewUser |-> TRUE])
  /\ UNCHANGED <<products, orders>>

\* ------------------------------------------------------------ specification
InitProcs ==
  /\ pc = [p \in Procs |-> "idle"]
  /\ req = [p \in Procs |-> NoBody]
  /\ loc = [p \in Procs |-> NoBody]
  /\ resp = [p \in Procs |-> NoResp]

InitAuth ==
  /\ users = <<>>
  /\ products = {}
  /\ orders = <<>>
  /\ InitProcs

NextAuth ==
  \/ \E p \in Procs, b \in SignupBodies : Signup(p, b)
  \/ \E p \in Procs : SignupSave(p)
  \/ \E p \in Procs, b \in LoginBodies : Login(p, b)
  \/ \E p \in Procs : LoginSave(p)

SpecAuth == InitAuth /\ [][NextAuth]_vars

\* ------------------------------------------------------------ claims: auth
\* C1: in every reachable state no two persisted Users hold the same email,
\* also when two signups for one email both pass findOne before either saves.
C1_EmailUnique ==
  \A i, j \in 1..Len(users) : i # j => users[i].email # users[j].email

\* a signup that passed findOne is still waiting to save while its email has
\* been persisted by the other request, and both emails are registered
C1_Witness ==
  /\ Len(users) = 2
  /\ \E p \in Procs :
       /\ pc[p] = "signup_save"
       /\ req[p].role \in RoleEnum
       /\ FindUser(users, req[p].email) # 0

\* C2: a rejected signup never changes Users: password # confirm answers 400
\* (also for a registered email), password = confirm with a registered email
\* answers 409, and the step that answers 400 or 409 is the request's only
\* step and leaves the Users collection as it was; a signup goes on to save
\* only with matching passwords and an email no user holds.
C2_RejectedSignup ==
  [][\A p \in Procs :
       (Acts(p) /\ pc[p] = "idle") =>
         /\ (pc'[p] = "idle" /\ resp'[p].route = "signup") =>
              /\ users' = users
              /\ resp'[p].status \in {400, 409}
              /\ resp'[p].status = 400 <=> ~resp'[p].of.match
              /\ resp'[p].status = 409 =>
                   FindUser(users, resp'[p].of.email) # 0
         /\ pc'[p] = "signup_save" =>
              /\ users' = users
              /\ req'[p].password = req'[p].confirm
              /\ FindUser(users, req'[p].email) = 0]_vars

\* a signup with mismatching passwords was refused with 400 for an email that
\* the other request found registered (409)
C2_Witness ==
  \E p, q \in Procs :
    /\ resp[p].route = "signup" /\ resp[p].status = 409
    /\ resp[q].route = "signup" /\ resp[q].status = 400
    /\ resp[q].of.email = resp[p].of.email
    /\ FindUser(users, resp[p].of.email) # 0

\* C3: for every user at most one successful login answers isNewUser = true,
\* also when two logins read isFirstLogin before either saves.
C3_NewUserOnce ==
  \A p, q \in Procs :
    (/\ p # q
     /\ resp[p].route = "login" /\ resp[p].status = 200
     /\ resp[q].route = "login" /\ resp[q].status = 200
     /\ resp[p].of.email = resp[q].of.email)
    => ~(resp[p].isNewUser /\ resp[q].isNewUser)

\* C10: a failed login never consumes the first-login flag: the checks run
\* unknown email -> 404, wrong password -> 401, wrong role -> 403 naming the
\* stored role; a login answered 404, 401 or 403 leaves Users unchanged; and
\* a successful login of a user whose flag is still set answers isNewUser.
C10_FailedLogin ==
  [][\A p \in Procs :
       /\ (Acts(p) /\ pc[p] = "idle" /\ pc'[p] = "idle"
           /\ resp'[p].route = "login") =>
            LET b == resp'[p].of
                i == FindUser(users, b.email)
                st == resp'[p].status IN
              /\ users' = users
              /\ st \in {200, 401, 403, 404}
              /\ st = 404 <=> i = 0
              /\ i # 0 =>
                   /\ st = 401 <=> ~BcryptCompare(b.password, users[i].password)
                   /\ st = 403 <=>
                        /\ BcryptCompare(b.password, users[i].password)
                        /\ users[i].role # b.role
                   /\ st = 403 =>
                        resp'[p].message =
                          <<"Incorrect role. Registered as ", users[i].role>>
                   /\ st = 200 =>
                        /\ ~users[i].isFirstLogin
                        /\ ~resp'[p].isNewUser
       /\ (Acts(p) /\ pc[p] = "login_save") =>
            /\ resp'[p].status = 200
            /\ resp'[p].isNewUser]_vars

\* a login was answered 401 (wrong password and wrong role) and another 403
\* for a user whose flag is still set (a cleared flag is never set again)
C10_Witness ==
  \E p, q \in Procs :
    /\ resp[p].route = "login" /\ resp[p].status = 403
    /\ resp[q].route = "login" /\ resp[q].status = 401
    /\ resp[q].of.email = resp[p].of.email
    /\ resp[q].of.role # users[FindUser(users, resp[p].of.email)].role
    /\ users[FindUser(users, resp[p].of.email)].isFirstLogin

\* ---------------------------------------------------------------- wishlist
\* a database already holding the users of Emails (each the result of a
\* signup) and two products
RegisteredUsers ==
  LET b(e) == [route |-> "signup", name |-> "n", email |-> e,
               password |-> "pw1", confirm |-> "pw1", role |-> "user"]
      u1 == NewUser(<<>>, b("a@x")) IN
    <<u1, NewUser(<<u1>>, b("b@x"))>>

Catalog ==
  {[_id |-> 1, name |-> "Tee", price |-> 499, image |-> "http://x/y.png",
    category |-> "men"],
   [_id |-> 2, name |-> "Cap", price |-> 199, image |-> "/uploads/1-cap.png",
    category |-> "kids"]}

ProductIds == {1, 2}
UnknownEmail == "c@x"
RequestEmails == Emails \cup {UnknownEmail}

WishlistBodies == [route : {"wishlist.post"}, email : RequestEmails,
                   productId : ProductIds]

\* user.wishlist.includes(productId)
Includes(wishlist, productId) ==
  \E k \in 1..Len(wishlist) : wishlist[k] = productId

\* POST /wishlist up to the await of user.save()
AddToWishlist(p, b) ==
  /\ pc[p] = "idle"
  /\ LET i == FindUser(users, b.email) IN
       IF i = 0
       THEN /\ Respond(p, [route |-> "wishlist.post", of |-> b, status |-> 404,
                           success |-> FALSE, message |-> "User not found"])
            /\ UNCHANGED <<users, products, orders>>
       ELSE IF Includes(users[i].wishlist, b.productId)
       THEN /\ Respond(p, [route |-> "wishlist.post", of |-> b, status |-> 200,
                           success |-> TRUE])
            /\ UNCHANGED <<users, products, orders>>
       ELSE /\ pc' = [pc EXCEPT ![p] = "wishlist_save"]
            /\ req' = [req EXCEPT ![p] = b]
            /\ loc' = [loc EXCEPT ![p] =
                         [route |-> "wishlist.post", userId |-> users[i]._id]]
            /\ resp' = [resp EXCEPT ![p] = NoResp]
            /\ UNCHANGED <<users, products, orders>>

\* user.wishlist.push(productId); await user.save(): the save sends the
\* pending array operation ($push of the one value) for the document with
\* the user's _id; it is applied to the array as stored at that moment
WishlistSave(p) ==
  /\ pc[p] = "wishlist_save"
  /\ users' = [users EXCEPT ![loc[p].userId].wishlist =
                 Append(@, req[p].productId)]
  /\ Respond(p, [route |-> "wishlist.post", of |-> req[p], status |-> 200,
                 success |-> TRUE])
  /\ UNCHANGED <<products, orders>>

\* populate("wishlist"): every stored id that resolves to a Product, in order
RECURSIVE Populate(_, _)
Populate(wishlist, ps) ==
  IF wishlist = <<>> THEN <<>>
  ELSE LET found == {d \in ps : d._id = Head(wishlist)} IN
         (IF found = {} THEN <<>> ELSE <<CHOOSE d \in found : TRUE>>)
           \o Populate(Tail(wishlist), ps)

\* GET /wishlist/:email
GetWishlist(p, email) ==
  /\ pc[p] = "idle"
  /\ LET i == FindUser(users, email) IN
       IF i = 0
       THEN Respond(p, [route |-> "wishlist.get", of |-> email, status |-> 404,
                        success |-> FALSE, message |-> "User not found"])
       ELSE Respond(p, [route |-> "wishlist.get", of |-> email, status |-> 200,
                        body |-> Populate(users[i].wishlist, products)])
  /\ UNCHANGED <<users, products, orders>>

InitWishlist ==
  /\ users = RegisteredUsers
  /\ products = Catalog
  /\ orders = <<>>
  /\ InitProcs

NextWishlist ==
  \/ \E p \in Procs, b \in WishlistBodies : AddToWishlist(p, b)
  \/ \E p \in Procs : WishlistSave(p)
  \/ \E p \in Procs, e \in RequestEmails : GetWishlist(p, e)

SpecWishlist == InitWishlist /\ [][NextWishlist]_vars

\* C4: in every reachable state each user's wishlist holds any productId at
\* most once, also after two concurrent adds of one productId for one user.
C4_WishlistSet ==
  \A i \in 1..Len(users) : \A k, m \in 1..Len(users[i].wishlist) :
    k # m => users[i].wishlist[k] # users[i].wishlist[m]

\* ------------------------------------------------------------------ orders
Item(id, q) == [productId |-> id, quantity |-> q]

ItemLists == {<<Item(1, 2), Item(2, 1)>>, <<Item(2, 3), Item(1, 1)>>}
ItemIndexes == UNION {DOMAIN l : l \in ItemLists}
Amounts == {3, 5}
OrderEmails == {"a@x", UnknownEmail}

OrderBodies == [route : {"orders.post"}, email : OrderEmails,
                products : ItemLists, totalAmount : Amounts]

\* Product.findById(id): the document in a one-element sequence, <<>> for null
FindProduct(ps, id) ==
  IF \E d \in ps : d._id = id THEN <<CHOOSE d \in ps : d._id = id>> ELSE <<>>

\* the line item built from the product found for request item it
Snapshot(product, it) ==
  [productId |-> product._id, productName |-> product.name,
   productPrice |-> product.price, quantity |-> it.quantity]

\* the catch block of POST /orders
OrderFailure(b) ==
  [route |-> "orders.post", of |-> b.email, status |-> 500, success |-> FALSE,
   message |-> "Failed to create order"]

\* requests being served that may still write an Order
OrdersInFlight == Cardinality({q \in Procs : pc[q] = "order_lookup"})

\* POST /orders up to the product lookups: one findById per line item is
\* issued, all pending
CreateOrder(p, b) ==
  /\ pc[p] = "idle"
  /\ Len(orders) + OrdersInFlight < MaxOrders
  /\ LET i == FindUser(users, b.email) IN
       IF i = 0
       THEN /\ Respond(p, [route |-> "orders.post", of |-> b.email,
                           status |-> 404, success |-> FALSE,
                           message |-> "User not found"])
            /\ UNCHANGED <<users, products, orders>>
       ELSE /\ pc' = [pc EXCEPT ![p] = "order_lookup"]
            /\ req' = [req EXCEPT ![p] = b]
            /\ loc' = [loc EXCEPT ![p] =
                         [route |-> "orders.post", userId |-> users[i]._id,
                          data |-> [k \in 1..Len(b.products) |-> <<>>]]]
            /\ resp' = [resp EXCEPT ![p] = NoResp]
            /\ UNCHANGED <<users, products, orders>>

\* new Order({ userId, products: productData, totalAmount }) with the schema
\* defaults (status, createdAt)
NewOrder(os, userId, data, totalAmount) ==
  [_id |-> Len(os) + 1, userId |-> userId,
   products |-> [k \in DOMAIN data |-> data[k][1]],
   totalAmount |-> totalAmount, status |-> "Pending",
   createdAt |-> Len(os) + 1]

\* a lookup that, on a missing product, saves the line items resolved so far
OrderLookupPartial(p, k) ==
  /\ pc[p] = "order_lookup"
  /\ k \in DOMAIN loc[p].data
  /\ loc[p].data[k] = <<>>
  /\ LET found == FindProduct(products, req[p].products[k].productId)
         done == SelectSeq(loc[p].data, LAMBDA d : d # <<>>) IN
       IF found = <<>>
       THEN /\ orders' = Append(orders, NewOrder(orders, loc[p].userId, done,
                                                 req[p].totalAmount))
            /\ Respond(p, OrderFailure(req[p]))
       ELSE /\ loc' = [loc EXCEPT ![p].data[k] =
                         <<Snapshot(found[1], req[p].products[k])>>]
            /\ UNCHANGED <<pc, req, resp, orders>>
  /\ UNCHANGED <<users, products>>

\* one pending Product.findById completes: a missing product throws, which
\* rejects Promise.all and runs the catch block
OrderLookup(p, k) ==
  /\ pc[p] = "order_lookup"
  /\ k \in DOMAIN loc[p].data
  /\ loc[p].data[k] = <<>>
  /\ LET found == FindProduct(products, req[p].products[k].productId) IN
       IF found = <<>>
       THEN Respond(p, OrderFailure(req[p]))
       ELSE /\ loc' = [loc EXCEPT ![p].data[k] =
                         <<Snapshot(found[1], req[p].products[k])>>]
            /\ UNCHANGED <<pc, req, resp>>
  /\ UNCHANGED <<users, products, orders>>

\* every lookup has resolved: await order.save(), then the response
OrderSave(p) ==
  /\ pc[p] = "order_lookup"
  /\ \A k \in DOMAIN loc[p].data : loc[p].data[k] # <<>>
  /\ LET order == NewOrder(orders, loc[p].userId, loc[p].data,
                           req[p].totalAmount) IN
       /\ orders' = Append(orders, order)
       /\ Respond(p, [route |-> "orders.post", of |-> req[p].email,
                      status |-> 200, success |-> TRUE, order |-> order])
  /\ UNCHANGED <<users, products>>

\* DELETE /products/:id (Product.findByIdAndDelete)
DeleteProductEffect(ps, os, id) == <<{d \in ps : d._id # id}, os>>

DeleteProduct(p, id) ==
  /\ pc[p] = "idle"
  /\ products' = DeleteProductEffect(products, orders, id)[1]
  /\ orders' = DeleteProductEffect(products, orders, id)[2]
  /\ Respond(p, [route |-> "products.delete", of |-> id, status |-> 200,
                 success |-> TRUE])
  /\ UNCHANGED users

\* PUT /orders/:id
StatusInputs == {"Shipped", "Cancelled", "undefined"}
OrderIds == 1..(MaxOrders + 1)

\* what { status: req.body.status } stores: update validators are off, so
\* any string is written as it is; an undefined value is dropped from the
\* update or written as null, depending on the Mongoose version
StoredStatus(old, status) ==
  IF status = "undefined" THEN {old, "null"} ELSE {status}

\* Order.findByIdAndUpdate(id, { status }, { new: true }): the one document
\* with the _id gets the stored value; no document is created (no upsert)
UpdateEveryOrder(os, id, st) ==
  [k \in 1..Len(os) |-> [os[k] EXCEPT !.status = st]]

FindByIdAndUpdate(os, id, st) ==
  [k \in 1..Len(os) |-> IF os[k]._id = id
                         THEN [os[k] EXCEPT !.status = st] ELSE os[k]]

UpdateOrderStatus(p, id, status) ==
  /\ pc[p] = "idle"
  /\ IF \E k \in 1..Len(orders) : orders[k]._id = id
     THEN \E st \in StoredStatus(orders[id].status, status) :
            /\ orders' = FindByIdAndUpdate(orders, id, st)
            /\ Respond(p, [route |-> "orders.put", of |-> id, status |-> 200,
                           success |-> TRUE, order |-> <<orders'[id]>>])
     ELSE /\ orders' = FindByIdAndUpdate(orders, id, status)
          /\ Respond(p, [route |-> "orders.put", of |-> id, status |-> 200,
                         success |-> TRUE, order |-> <<>>])
  /\ UNCHANGED <<users, products>>

InitOrders ==
  /\ users = RegisteredUsers
  /\ products = Catalog
  /\ orders = <<>>
  /\ InitProcs

NextOrders ==
  \/ \E b \in OrderBodies : CreateOrder("p1", b)
  \/ \E k \in ItemIndexes : OrderLookup("p1", k)
  \/ OrderSave("p1")
  \/ \E id \in ProductIds : DeleteProduct("p2", id)
  \/ \E id \in OrderIds, st \in StatusInputs : UpdateOrderStatus("p2", id, st)

SpecOrders == InitOrders /\ [][NextOrders]_vars

\* ---------------------------------------------------------- claims: orders
\* C5: createOrder is all-or-nothing: a request answered 404 (no such user)
\* or failing a product lookup leaves Orders unchanged; a pending lookup
\* resolves only to the product as it exists at that moment and fails when it
\* does not exist; an Order is written only once every lookup has resolved,
\* and holds one snapshot per requested line item, in request order.
C5_AllOrNothing ==
  [][\A p \in Procs :
       /\ (Acts(p) /\ pc[p] = "idle" /\ pc'[p] = "idle"
           /\ resp'[p].route = "orders.post") =>
            /\ orders' = orders
            /\ resp'[p].status = 404
            /\ FindUser(users, resp'[p].of) = 0
       /\ (Acts(p) /\ pc[p] = "idle" /\ pc'[p] = "order_lookup") =>
            /\ orders' = orders
            /\ FindUser(users, req'[p].email) # 0
            /\ \A k \in DOMAIN loc'[p].data : loc'[p].data[k] = <<>>
            /\ DOMAIN loc'[p].data = DOMAIN req'[p].products
       /\ (Acts(p) /\ pc[p] = "order_lookup" /\ pc'[p] = "order_lookup") =>
            /\ orders' = orders
            /\ \A k \in DOMAIN loc[p].data :
                 loc'[p].data[k] # loc[p].data[k] =>
                   /\ loc[p].data[k] = <<>>
                   /\ FindProduct(products, req[p].products[k].productId) # <<>>
       /\ (Acts(p) /\ pc[p] = "order_lookup" /\ pc'[p] = "idle") =>
            IF resp'[p].status = 200
            THEN /\ \A k \in DOMAIN loc[p].data : loc[p].data[k] # <<>>
                 /\ Len(orders') = Len(orders) + 1
                 /\ SubSeq(orders', 1, Len(orders)) = orders
                 /\ LET o == orders'[Len(orders')] IN
                      /\ Len(o.products) = Len(req[p].products)
                      /\ \A k \in 1..Len(o.products) :
                           /\ o.products[k].productId = req[p].products[k].productId
                           /\ o.products[k].quantity = req[p].products[k].quantity
                           /\ o.products[k] = loc[p].data[k][1]
            ELSE /\ orders' = orders
                 /\ \E k \in DOMAIN loc[p].data :
                      /\ loc[p].data[k] = <<>>
                      /\ FindProduct(products, req[p].products[k].productId) = <<>>
       /\ Len(orders') # Len(orders) =>
            \E q \in Procs : pc[q] = "order_lookup" /\ pc'[q] = "idle"]_vars

\* an order was refused after its first line item had resolved, because the
\* product of the other one had been deleted meanwhile; another order with
\* both line items is persisted
C5_Witness ==
  /\ resp["p1"].route = "orders.post"
  /\ resp["p1"].status = 500
  /\ Cardinality(products) = 1
  /\ Len(orders) = 1
  /\ Len(orders[1].products) = 2
  /\ orders[1].products[1].productId = 2

\* C6: createOrder for an existing user that fails on a missing product
\* answers 404, not the generic 500.
C6_ProductNotFound404 ==
  [][\A p \in Procs :
       (Acts(p) /\ pc[p] = "order_lookup" /\ pc'[p] = "idle"
        /\ ~resp'[p].success) => resp'[p].status = 404]_vars

\* C8: in every reachable state every persisted Order has a status of the
\* enum Pending, Shipped, Delivered.
C8_StatusInEnum ==
  \A k \in 1..Len(orders) : orders[k].status \in StatusEnum

\* C9: a persisted Order is never removed and only its status ever changes;
\* deleteProduct leaves Orders unchanged; updateOrderStatus changes the
\* order with the given id only and creates no order.
C9_OrderFrame ==
  [][/\ Len(orders') >= Len(orders)
     /\ \A k \in 1..Len(orders) :
          [orders'[k] EXCEPT !.status = orders[k].status] = orders[k]
     /\ \A p \in Procs :
          (Acts(p) /\ pc[p] = "idle" /\ pc'[p] = "idle") =>
            /\ resp'[p].route = "products.delete" => orders' = orders
            /\ resp'[p].route = "orders.put" =>
                 /\ Len(orders') = Len(orders)
                 /\ \A k \in 1..Len(orders) :
                      orders[k]._id # resp'[p].of => orders'[k] = orders[k]]_vars

\* two orders are persisted, the product both reference has been deleted,
\* one order has been updated and the other still is as created
C9_Witness ==
  /\ Len(orders) = 2
  /\ products = {}
  /\ orders[1].status = "Shipped"
  /\ orders[2].status = "Pending"
  /\ orders[1].products[1].productName \in {"Tee", "Cap"}
  /\ resp["p2"].route = "orders.put"
  /\ resp["p2"].of > Len(orders)

\* --------------------------------------------------------------- analytics
AnalyticsFields ==
  {"totalUsers", "totalAdmins", "totalProducts", "totalOrders", "totalRevenueAgg"}

RECURSIVE SumTotalAmount(_)
SumTotalAmount(os) ==
  IF os = <<>> THEN 0 ELSE Head(os).totalAmount + SumTotalAmount(Tail(os))

RECURSIVE SumLineItems(_)
SumLineItems(items) ==
  IF items = <<>> THEN 0
  ELSE Head(items).productPrice * Head(items).quantity + SumLineItems(Tail(items))

\* Order.aggregate([{ $group: { _id: null, revenue: { $sum: "$totalAmount" } } }]):
\* one group when there is a document, no group otherwise
AggregateRevenueRecomputed(os) ==
  IF os = <<>> THEN <<>>
  ELSE <<[_id |-> "null",
          revenue |-> SumTotalAmount([k \in 1..Len(os) |->
                        [totalAmount |-> SumLineItems(os[k].products)]])]>>

AggregateRevenue(os) ==
  IF os = <<>> THEN <<>>
  ELSE <<[_id |-> "null", revenue |-> SumTotalAmount(os)]>>

\* the five queries of GET /analytics
Query(f) ==
  IF f = "totalUsers" THEN Len(users)
  ELSE IF f = "totalAdmins"
       THEN Cardinality({i \in 1..Len(users) : users[i].role = "admin"})
  ELSE IF f = "totalProducts" THEN Cardinality(products)
  ELSE IF f = "totalOrders" THEN Len(orders)
  ELSE AggregateRevenue(orders)

\* totalRevenueAgg[0]?.revenue || 0
TotalRevenue(agg) ==
  IF agg = <<>> THEN 0 ELSE IF agg[1].revenue = 0 THEN 0 ELSE agg[1].revenue

\* GET /analytics: the five queries are issued together, all pending.
\* ordersAtStart remembers how many orders existed when the request began
\* (history only, the handler does not read it).
Analytics(p) ==
  /\ pc[p] = "idle"
  /\ pc' = [pc EXCEPT ![p] = "analytics"]
  /\ req' = [req EXCEPT ![p] = [route |-> "analytics"]]
  /\ loc' = [loc EXCEPT ![p] =
               [route |-> "analytics", ordersAtStart |-> Len(orders),
                reads |-> [f \in AnalyticsFields |-> <<>>]]]
  /\ resp' = [resp EXCEPT ![p] = NoResp]
  /\ UNCHANGED <<users, products, orders>>

\* one pending query completes; the last one resolves Promise.all and the
\* response is sent
AnalyticsRead(p, f) ==
  /\ pc[p] = "analytics"
  /\ loc[p].reads[f] = <<>>
  /\ LET reads == [loc[p].reads EXCEPT ![f] = <<Query(f)>>] IN
       IF \E g \in AnalyticsFields : reads[g] = <<>>
       THEN /\ loc' = [loc EXCEPT ![p].reads = reads]
            /\ UNCHANGED <<pc, req, resp>>
       ELSE Respond(p, [route |-> "analytics", status |-> 200,
                        totalUsers |-> reads["totalUsers"][1],
                        totalAdmins |-> reads["totalAdmins"][1],
                        totalProducts |-> reads["totalProducts"][1],
                        totalOrders |-> reads["totalOrders"][1],
                        totalRevenue |-> TotalRevenue(reads["totalRevenueAgg"][1])])
  /\ UNCHANGED <<users, products, orders>>

NextAnalytics ==
  \/ \E b \in OrderBodies : CreateOrder("p1", b)
  \/ \E k \in ItemIndexes : OrderLookup("p1", k)
  \/ OrderSave("p1")
  \/ Analytics("p2")
  \/ \E f \in AnalyticsFields : AnalyticsRead("p2", f)

SpecAnalytics == InitOrders /\ [][NextAnalytics]_vars

\* C7: when no order is created while getAnalytics runs, totalRevenue is the
\* sum of the stored totalAmount values of all persisted Orders (0 when
\* there is none) and totalOrders is their number.
C7_Revenue ==
  [][\A p \in Procs :
       (/\ Acts(p) /\ pc[p] = "analytics" /\ pc'[p] = "idle"
        /\ loc[p].ordersAtStart = Len(orders)) =>
         /\ resp'[p].totalOrders = Len(orders)
         /\ resp'[p].totalRevenue =
              SumTotalAmount([k \in 1..Len(orders) |->
                                [totalAmount |-> orders[k].totalAmount]])
         /\ orders = <<>> => resp'[p].totalRevenue = 0]_vars

\* analytics answered for two persisted orders with different totalAmount
C7_Witness ==
  /\ Len(orders) = 2
  /\ orders[1].totalAmount # orders[2].totalAmount
  /\ resp["p2"].route = "analytics"
  /\ resp["p2"].totalOrders = 2
  /\ resp["p2"].totalRevenue = orders[1].totalAmount + orders[2].totalAmount

\* an order saved between the reads: the answer counts no order and reports
\* the revenue of one
C7_Skew ==
  /\ resp["p2"].route = "analytics"
  /\ resp["p2"].totalOrders = 0
  /\ resp["p2"].totalRevenue > 0

====
